---- MODULE Spec2Model ----
(***************************************************************************)
(* Order fulfilment saga: OrderService, InventoryService, ShippingService   *)
(* and the in-process EventBus that connects them.                          *)
(*                                                                          *)
(* The runtime is a single JavaScript thread.  A step of the model is one   *)
(* run-to-completion section of code: a public call (createOrder,           *)
(* addInventory, releaseStock) or the resumption of an asynchronous         *)
(* function after one of its awaits.  EventBus.publish calls the subscribed *)
(* handlers synchronously, so the synchronous handlers of the order saga    *)
(* and of the shipping service run inside the step that publishes.          *)
(***************************************************************************)
EXTENDS Integers, Sequences, FiniteSets, TLC

\* ------------------------------------------------------------------ bounds
MaxOrders == 2
MaxAdds == 2
MaxReleases == 1

\* ------------------------------------------------------------------ inputs
Item(p, q) == [productId |-> p, quantity |-> q]

\* A null entry of the items array (the request body is passed to createOrder
\* as received).
NullItem == [productId |-> "null", quantity |-> 0]

IsNull(item) == item = NullItem

\* Product ids that calls may name; PROD-9 is not stocked at construction.
ProductIds == {"PROD-1", "PROD-2", "PROD-3", "PROD-9"}

\* Item lists handed to createOrder.
OrderInputs ==
  { <<>>,
    <<Item("PROD-1", 2), Item("PROD-2", 3)>>,
    <<Item("PROD-2", 7), Item("PROD-3", 3)>>,
    <<Item("PROD-2", 3)>>,
    <<Item("PROD-9", 1)>>,
    <<NullItem, Item("PROD-3", 3)>> }

\* Arguments of addInventory and of releaseStock (positive quantities).  The
\* first addInventory of PROD-9 creates its record, a second adds to it.
AddInputs == { <<"PROD-9", 1>> }
ReleaseInputs == { <<"PROD-1", 2>> }

\* ------------------------------------------------------------------- state
VARIABLES
  inventory,   \* InventoryService.inventory: productId -> [quantity, reserved]
  lockMap,     \* InventoryService.lockMap: productId -> BOOLEAN
  orders,      \* OrderService.orders, indexed by order id 1..Len(orders)
  handlers,    \* one handleOrderPlaced invocation per order
  shipments,   \* ShippingService.shipments: order id -> shipment items
  shipLog,     \* history: the events published for each shipment item, in order
  sagaLog,     \* per order, the event types the order saga has handled
  busLog,      \* per order, its publications: event type and handlers invoked
  readyCount,  \* per order, the number of OrderReadyForShipping publications
  terminalLog, \* per order, the terminal values updateOrderStatus has assigned
  released,    \* per product, the quantity releaseStock has taken off reserved
  nAdds,       \* number of addInventory calls made
  nReleases    \* number of releaseStock calls made

vars == <<inventory, lockMap, orders, handlers, shipments, shipLog, sagaLog, busLog,
          readyCount, terminalLog, released, nAdds, nReleases>>

OrderIds == 1..MaxOrders

RECURSIVE MaxLenOf(_)
MaxLenOf(S) ==
  IF S = {} THEN 0
  ELSE LET s == CHOOSE x \in S : TRUE
           m == MaxLenOf(S \ {s})
       IN IF Len(s) > m THEN Len(s) ELSE m

\* An order's shipment batch has at most one line per outcome record, and a
\* requested line yields at most two outcome records.
MaxShipLines == 2 * MaxLenOf(OrderInputs)

Terminal == {"fulfilled", "partial", "cancelled"}

\* ----------------------------------------------------------- InventoryService
\* initializeInventory: the three addInventory calls of the constructor.
InitialInventory ==
  [p \in {"PROD-1", "PROD-2", "PROD-3"} |->
     [quantity |-> CASE p = "PROD-1" -> 10
                     [] p = "PROD-2" -> 5
                     [] p = "PROD-3" -> 15,
      reserved |-> 0]]

\* addInventory(productId, quantity)
addInventory(inv, p, q) ==
  IF p \in DOMAIN inv
    THEN [inv EXCEPT ![p].quantity = @ + q]
    ELSE [x \in DOMAIN inv \cup {p} |->
            IF x = p THEN [quantity |-> q, reserved |-> 0] ELSE inv[x]]

\* releaseStock(productId, quantity)
releaseStock(inv, p, q) ==
  IF p \in DOMAIN inv /\ inv[p].reserved >= q
    THEN [inv EXCEPT ![p].reserved = @ - q]
    ELSE inv

\* tryReserveStock comparing the request with the total quantity instead of
\* with the available quantity.
tryReserveStock_TotalCheck(inv, p, q) ==
  IF p \notin DOMAIN inv
    THEN [inventory |-> inv, success |-> FALSE, availableQuantity |-> 0]
    ELSE LET availableQuantity == inv[p].quantity - inv[p].reserved IN
         IF inv[p].quantity >= q
           THEN [inventory |-> [inv EXCEPT ![p].reserved = @ + q],
                 success |-> TRUE, availableQuantity |-> availableQuantity]
           ELSE [inventory |-> inv,
                 success |-> FALSE, availableQuantity |-> availableQuantity]

\* tryReserveStock granting the request without adding it to reserved.
tryReserveStock_NoIncrement(inv, p, q) ==
  IF p \notin DOMAIN inv
    THEN [inventory |-> inv, success |-> FALSE, availableQuantity |-> 0]
    ELSE LET availableQuantity == inv[p].quantity - inv[p].reserved IN
         [inventory |-> inv, success |-> availableQuantity >= q,
          availableQuantity |-> availableQuantity]

\* The critical section of tryReserveStock (between lockMap.set(true) and the
\* finally block): the inventory afterwards and the value returned.
tryReserveStock(inv, p, q) ==
  IF p \notin DOMAIN inv
    THEN [inventory |-> inv, success |-> FALSE, availableQuantity |-> 0]
    ELSE LET availableQuantity == inv[p].quantity - inv[p].reserved IN
         IF availableQuantity >= q
           THEN [inventory |-> [inv EXCEPT ![p].reserved = @ + q],
                 success |-> TRUE, availableQuantity |-> availableQuantity]
           ELSE [inventory |-> inv,
                 success |-> FALSE, availableQuantity |-> availableQuantity]

\* tryReserveStock without the finally block.
releaseLock_Keep(lm, p) == lm

\* The finally block of tryReserveStock: lockMap.set(productId, false).
releaseLock(lm, p) == [lm EXCEPT ![p] = FALSE]

\* --------------------------------------------------------------- OrderService
\* isOrderComplete with >= in place of ===.
isOrderComplete_AtLeast(order) ==
  Len(order.fulfillableItems) + Len(order.unfulfillableItems) >= Len(order.items)

isOrderComplete(order) ==
  Len(order.fulfillableItems) + Len(order.unfulfillableItems) = Len(order.items)

updateOrderStatus(order, status) == [order EXCEPT !.status = status]

\* The value of a synchronous saga handler: the order afterwards, the item
\* lists it published as OrderReadyForShipping (none or one) and a record of
\* each terminal status it assigned: the status, and whether the outcome
\* records then numbered the requested lines.
Outcome(order, ready, sets) == [order |-> order, ready |-> ready, sets |-> sets]

Assigned(order, status) ==
  <<[status |-> status,
     complete |-> Len(order.fulfillableItems) + Len(order.unfulfillableItems)
                    = Len(order.items)]>>

\* handleStockReserved with the status condition testing the wrong list.
handleStockReserved_WrongStatus(order, items) ==
  LET o1 == [order EXCEPT !.fulfillableItems = @ \o items]
      status == IF Len(o1.fulfillableItems) > 0 THEN "partial" ELSE "fulfilled"
  IN
  IF isOrderComplete(o1)
    THEN Outcome(updateOrderStatus(o1, status), <<o1.fulfillableItems>>,
                 Assigned(o1, status))
    ELSE Outcome(o1, <<>>, <<>>)

\* handleStockReserved(event), event.data.items = items
handleStockReserved(order, items) ==
  LET o1 == [order EXCEPT !.fulfillableItems = @ \o items]
      status == IF Len(o1.unfulfillableItems) > 0 THEN "partial" ELSE "fulfilled"
  IN
  IF isOrderComplete(o1)
    THEN Outcome(updateOrderStatus(o1, status), <<o1.fulfillableItems>>,
                 Assigned(o1, status))
    ELSE Outcome(o1, <<>>, <<>>)

\* handleOutOfStock recording the whole requested quantity as unfulfillable.
handleOutOfStock_WholeRequest(order, p, requestedQuantity, availableQuantity) ==
  LET o1 == [order EXCEPT !.unfulfillableItems =
                            Append(@, Item(p, requestedQuantity))]
      o2 == IF availableQuantity > 0
              THEN [o1 EXCEPT !.fulfillableItems = Append(@, Item(p, availableQuantity))]
              ELSE o1
      status == IF Len(o2.fulfillableItems) > 0 THEN "partial" ELSE "cancelled"
  IN
  IF isOrderComplete(o2)
    THEN Outcome(updateOrderStatus(o2, status),
                 IF Len(o2.fulfillableItems) > 0 THEN <<o2.fulfillableItems>> ELSE <<>>,
                 Assigned(o2, status))
    ELSE Outcome(o2, <<>>, <<>>)

\* handleOutOfStock with the status condition testing the unfulfillable list.
handleOutOfStock_StatusByUnfulfillable(order, p, requestedQuantity, availableQuantity) ==
  LET o1 == [order EXCEPT !.unfulfillableItems =
                            Append(@, Item(p, requestedQuantity - availableQuantity))]
      o2 == IF availableQuantity > 0
              THEN [o1 EXCEPT !.fulfillableItems = Append(@, Item(p, availableQuantity))]
              ELSE o1
      status == IF Len(o2.unfulfillableItems) > 0 THEN "partial" ELSE "cancelled"
  IN
  IF isOrderComplete(o2)
    THEN Outcome(updateOrderStatus(o2, status),
                 IF Len(o2.fulfillableItems) > 0 THEN <<o2.fulfillableItems>> ELSE <<>>,
                 Assigned(o2, status))
    ELSE Outcome(o2, <<>>, <<>>)

\* handleOutOfStock(event), event.data = (productId, requestedQuantity, availableQuantity)
handleOutOfStock(order, p, requestedQuantity, availableQuantity) ==
  LET o1 == [order EXCEPT !.unfulfillableItems =
                            Append(@, Item(p, requestedQuantity - availableQuantity))]
      o2 == IF availableQuantity > 0
              THEN [o1 EXCEPT !.fulfillableItems = Append(@, Item(p, availableQuantity))]
              ELSE o1
      status == IF Len(o2.fulfillableItems) > 0 THEN "partial" ELSE "cancelled"
  IN
  IF isOrderComplete(o2)
    THEN Outcome(updateOrderStatus(o2, status),
                 IF Len(o2.fulfillableItems) > 0 THEN <<o2.fulfillableItems>> ELSE <<>>,
                 Assigned(o2, status))
    ELSE Outcome(o2, <<>>, <<>>)

\* ------------------------------------------------------------ ShippingService
\* handleOrderReadyForShipping: items.map(...) with status 'pending'.
ShipmentItems(items) ==
  [k \in 1..Len(items) |->
     [productId |-> items[k].productId, quantity |-> items[k].quantity,
      status |-> "pending"]]

\* shipments after the OrderReadyForShipping events in `ready` for order o.
handleOrderReadyForShipping(ships, o, ready) ==
  IF Len(ready) = 0 THEN ships
  ELSE [ships EXCEPT ![o] = ShipmentItems(ready[Len(ready)])]

\* The events published for the shipment items of order o: none yet for the
\* items handleOrderReadyForShipping has just created.
shipLogAfter(log, o, ready) ==
  IF Len(ready) = 0 THEN log
  ELSE [log EXCEPT ![o] = [k \in 1..Len(ready[Len(ready)]) |-> <<>>]]

\* ------------------------------------------------------------------- EventBus
\* The subscribe calls of the three constructors, in the order in which
\* index.ts constructs the services.
Subscriptions ==
  << [type |-> "StockReserved", handler |-> "OrderService.handleStockReserved"],
     [type |-> "OutOfStock", handler |-> "OrderService.handleOutOfStock"],
     [type |-> "OrderPlaced", handler |-> "InventoryService.handleOrderPlaced"],
     [type |-> "OrderReadyForShipping",
      handler |-> "ShippingService.handleOrderReadyForShipping"] >>

\* publish invoking no handler.
publish_None(type) == <<>>

\* EventBus.publish(event): emit(event.type, event) calls the listeners
\* registered for event.type, in the order of their registration.  The value
\* is the sequence of handlers invoked.
publish(type) ==
  LET sel == SelectSeq(Subscriptions, LAMBDA sub : sub.type = type)
  IN [i \in 1..Len(sel) |-> sel[i].handler]

\* A publication as busLog records it.
Published(type) == [type |-> type, invoked |-> publish(type)]

\* publish invokes handler `name` for events of this type.
Invokes(type, name) == \E i \in 1..Len(publish(type)) : publish(type)[i] = name

StockReservedEvent(items) == [type |-> "StockReserved", items |-> items]

OutOfStockEvent(p, requestedQuantity, availableQuantity) ==
  [type |-> "OutOfStock", productId |-> p,
   requestedQuantity |-> requestedQuantity, availableQuantity |-> availableQuantity]

\* The handlers hs invoked in turn for event ev.  acc gathers the outcome of
\* the order saga (out), the event types its handlers handled (log) and the
\* publications made (bus), those of OrderReadyForShipping by the saga
\* handlers included.
RECURSIVE invokeAll(_, _, _)
invokeAll(hs, ev, acc) ==
  IF hs = <<>> THEN acc
  ELSE IF Head(hs) \notin {"OrderService.handleStockReserved",
                           "OrderService.handleOutOfStock"}
    THEN invokeAll(Tail(hs), ev, acc)
    ELSE LET step == IF Head(hs) = "OrderService.handleStockReserved"
                       THEN handleStockReserved(acc.out.order, ev.items)
                       ELSE handleOutOfStock(acc.out.order, ev.productId,
                                             ev.requestedQuantity, ev.availableQuantity)
         IN invokeAll(Tail(hs), ev,
              [out |-> Outcome(step.order, acc.out.ready \o step.ready,
                               acc.out.sets \o step.sets),
               log |-> Append(acc.log, ev.type),
               bus |-> acc.bus \o [k \in 1..Len(step.ready) |->
                                     Published("OrderReadyForShipping")]])

\* publish(ev) for a StockReserved or OutOfStock event about `order`.
publishSaga(order, ev) ==
  invokeAll(publish(ev.type), ev,
            [out |-> Outcome(order, <<>>, <<>>), log |-> <<>>,
             bus |-> <<Published(ev.type)>>])

\* Nothing published.
Silent(order) == [out |-> Outcome(order, <<>>, <<>>), log |-> <<>>, bus |-> <<>>]

\* The OrderReadyForShipping events of `ready` that reach the shipping service.
readyInvoked(ready) ==
  IF Invokes("OrderReadyForShipping", "ShippingService.handleOrderReadyForShipping")
    THEN ready ELSE <<>>

\* ----------------------------------------------------------------------- Init
Init ==
  /\ inventory = InitialInventory
  /\ lockMap = [p \in ProductIds |-> FALSE]
  /\ orders = <<>>
  /\ handlers = <<>>
  /\ shipments = [o \in OrderIds |-> <<>>]
  /\ shipLog = [o \in OrderIds |-> <<>>]
  /\ sagaLog = [o \in OrderIds |-> <<>>]
  /\ busLog = [o \in OrderIds |-> <<>>]
  /\ readyCount = [o \in OrderIds |-> 0]
  /\ terminalLog = [o \in OrderIds |-> <<>>]
  /\ released = [p \in ProductIds |-> 0]
  /\ nAdds = 0
  /\ nReleases = 0

\* ---------------------------------------------------------- handleOrderPlaced
\* A handleOrderPlaced invocation taking the lines from the last one.
NewHandler_FromLast(items) ==
  [pc |-> IF Len(items) = 0 THEN "done" ELSE "pace",
   idx |-> IF Len(items) = 0 THEN 1 ELSE Len(items),
   reservations |-> <<>>, results |-> <<>>]

\* A handleOrderPlaced invocation: pc is the await it is suspended at
\* ("pace": the pacing delay of line idx; "lockwait": the lock poll inside
\* tryReserveStock; "result": the await of tryReserveStock's promise), or "done".
\* results records the value tryReserveStock returned for each line attempted.
NewHandler(items) ==
  [pc |-> IF Len(items) = 0 THEN "done" ELSE "pace",
   idx |-> 1, reservations |-> <<>>, results |-> <<>>]

\* The loop body publishing StockReserved for each reserved line at once, as
\* well as collecting it for the publication after the loop.
lineResult_Eager(h, order, item, r) ==
  IF r.success
    THEN [reservations |-> Append(h.reservations, item)]
           @@ publishSaga(order, StockReservedEvent(<<item>>))
    ELSE [reservations |-> h.reservations]
           @@ publishSaga(order, OutOfStockEvent(item.productId, item.quantity,
                                                 r.availableQuantity))

\* No handleOrderPlaced invocation was started for the order.
NoHandler == [pc |-> "done", idx |-> 1, reservations |-> <<>>, results |-> <<>>]

\* The body of the loop after `await this.tryReserveStock(...)` for line
\* `item` with returned value r: the reservations list, the order after the
\* saga has handled what was published, and the events published.
lineResult(h, order, item, r) ==
  IF r.success
    THEN [reservations |-> Append(h.reservations, item)] @@ Silent(order)
    ELSE [reservations |-> h.reservations]
           @@ publishSaga(order, OutOfStockEvent(item.productId, item.quantity,
                                                 r.availableQuantity))

\* The code after the loop publishing StockReserved whatever the length of
\* reservations.
loopEnd_Always(reservations, order) ==
  publishSaga(order, StockReservedEvent(reservations))

\* After the loop: publish StockReserved when reservations is not empty.
loopEnd(reservations, order) ==
  IF Len(reservations) > 0
    THEN publishSaga(order, StockReservedEvent(reservations))
    ELSE Silent(order)

\* handleOrderPlaced as run inside publish(OrderPlaced), up to its first
\* await: with no item the loop is skipped and the code after it runs at once.
handleOrderPlacedStart(order) ==
  IF Len(order.items) = 0
    THEN [handler |-> NewHandler(order.items)] @@ loopEnd(<<>>, order)
    ELSE [handler |-> NewHandler(order.items)] @@ Silent(order)

\* An entry of a handler's results: the value tryReserveStock returned for the
\* line, or the mark of a line whose attempt threw.
Returned(r) ==
  [success |-> r.success, availableQuantity |-> r.availableQuantity, threw |-> FALSE]

Thrown == [success |-> FALSE, availableQuantity |-> 0, threw |-> TRUE]

\* The catch block of the loop body: console.error and nothing else.
lineCaught(h, order) == [reservations |-> h.reservations] @@ Silent(order)

\* handleOrderPlaced after the body of the loop for line h.idx, whose outcome
\* is `line`: suspend at the pacing delay of the next line, or leave the loop
\* and publish StockReserved.  The saga and shipping handlers run inside the
\* publish.
Advance(o, h, line) ==
  LET last == h.idx = Len(orders[o].items)
      end == IF last THEN loopEnd(line.reservations, line.out.order)
                     ELSE Silent(line.out.order)
      ready == line.out.ready \o end.out.ready
  IN /\ handlers' = [handlers EXCEPT
           ![o] = [h EXCEPT !.pc = IF last THEN "done" ELSE "pace",
                            !.idx = h.idx + 1,
                            !.reservations = line.reservations]]
     /\ orders' = [orders EXCEPT ![o] = end.out.order]
     /\ sagaLog' = [sagaLog EXCEPT ![o] = @ \o line.log \o end.log]
     /\ busLog' = [busLog EXCEPT ![o] = @ \o line.bus \o end.bus]
     /\ readyCount' = [readyCount EXCEPT ![o] = @ + Len(ready)]
     /\ terminalLog' = [terminalLog EXCEPT ![o] = @ \o line.out.sets \o end.out.sets]
     /\ shipments' = handleOrderReadyForShipping(shipments, o, readyInvoked(ready))
     /\ shipLog' = shipLogAfter(shipLog, o, readyInvoked(ready))

\* -------------------------------------------------------------------- actions
\* OrderService.createOrder(items): store the order, publish OrderPlaced (the
\* inventory handler runs to its first await), set the status to processing.
CreateOrder(items) ==
  /\ Len(orders) < MaxOrders
  /\ LET order == [items |-> items, status |-> "pending",
                   fulfillableItems |-> <<>>, unfulfillableItems |-> <<>>]
         o == Len(orders) + 1
         start == IF Invokes("OrderPlaced", "InventoryService.handleOrderPlaced")
                    THEN handleOrderPlacedStart(order)
                    ELSE [handler |-> NoHandler] @@ Silent(order)
     IN /\ orders' = Append(orders, updateOrderStatus(start.out.order, "processing"))
        /\ handlers' = Append(handlers, start.handler)
        /\ sagaLog' = [sagaLog EXCEPT ![o] = @ \o start.log]
        /\ busLog' = [busLog EXCEPT ![o] = <<Published("OrderPlaced")>> \o start.bus]
        /\ readyCount' = [readyCount EXCEPT ![o] = @ + Len(start.out.ready)]
        /\ terminalLog' = [terminalLog EXCEPT ![o] = @ \o start.out.sets]
        /\ shipments' = handleOrderReadyForShipping(shipments, o,
                                                    readyInvoked(start.out.ready))
        /\ shipLog' = shipLogAfter(shipLog, o, readyInvoked(start.out.ready))
  /\ UNCHANGED <<inventory, lockMap, released, nAdds, nReleases>>

\* A timer of handleOrderPlaced fires (the pacing delay, or the 10 ms lock
\* poll): tryReserveStock runs from its while loop up to its return.  For a
\* null entry, reading item.productId throws before tryReserveStock is
\* called; the catch block runs and the loop goes on in the same step.
ResumeReserve(o) ==
  /\ o \in 1..Len(handlers)
  /\ handlers[o].pc \in {"pace", "lockwait"}
  /\ LET h == handlers[o]
         item == orders[o].items[h.idx]
         r == tryReserveStock(inventory, item.productId, item.quantity)
     IN IF IsNull(item)
          THEN /\ Advance(o, [h EXCEPT !.results = Append(@, Thrown)],
                          lineCaught(h, orders[o]))
               /\ UNCHANGED <<inventory, lockMap>>
          ELSE /\ IF lockMap[item.productId]
                    THEN /\ handlers' = [handlers EXCEPT ![o].pc = "lockwait"]
                         /\ UNCHANGED <<inventory, lockMap>>
                    ELSE /\ inventory' = r.inventory
                         /\ lockMap' = releaseLock([lockMap EXCEPT ![item.productId] = TRUE],
                                                   item.productId)
                         /\ handlers' = [handlers EXCEPT
                               ![o].pc = "result",
                               ![o].results = Append(@, Returned(r))]
               /\ UNCHANGED <<orders, shipments, shipLog, sagaLog, busLog, readyCount, terminalLog>>
  /\ UNCHANGED <<released, nAdds, nReleases>>

\* handleOrderPlaced resumes after `await this.tryReserveStock(...)`: it
\* records the reservation or publishes OutOfStock, then either suspends at
\* the pacing delay of the next line or leaves the loop and publishes
\* StockReserved.  The saga and shipping handlers run inside the publish.
AfterReserve(o) ==
  /\ o \in 1..Len(handlers)
  /\ handlers[o].pc = "result"
  /\ LET h == handlers[o]
     IN Advance(o, h, lineResult(h, orders[o], orders[o].items[h.idx], h.results[h.idx]))
  /\ UNCHANGED <<inventory, lockMap, released, nAdds, nReleases>>

\* processShipment marking the item delivered, and publishing ItemDelivered,
\* after the first delay.
Ship_SkipToDelivered(o, k) ==
  /\ k \in 1..Len(shipments[o])
  /\ shipments[o][k].status = "pending"
  /\ shipments' = [shipments EXCEPT ![o][k].status = "delivered"]
  /\ shipLog' = [shipLog EXCEPT ![o][k] = Append(@, "ItemDelivered")]
  /\ UNCHANGED <<inventory, lockMap, orders, handlers, sagaLog, busLog, readyCount,
                 terminalLog, released, nAdds, nReleases>>

\* processShipment resumes after the shipping delay.
Ship(o, k) ==
  /\ k \in 1..Len(shipments[o])
  /\ shipments[o][k].status = "pending"
  /\ shipments' = [shipments EXCEPT ![o][k].status = "shipped"]
  /\ shipLog' = [shipLog EXCEPT ![o][k] = Append(@, "ItemShipped")]
  /\ UNCHANGED <<inventory, lockMap, orders, handlers, sagaLog, busLog, readyCount,
                 terminalLog, released, nAdds, nReleases>>

\* processShipment resumes after the delivery delay.
Deliver(o, k) ==
  /\ k \in 1..Len(shipments[o])
  /\ shipments[o][k].status = "shipped"
  /\ shipments' = [shipments EXCEPT ![o][k].status = "delivered"]
  /\ shipLog' = [shipLog EXCEPT ![o][k] = Append(@, "ItemDelivered")]
  /\ UNCHANGED <<inventory, lockMap, orders, handlers, sagaLog, busLog, readyCount,
                 terminalLog, released, nAdds, nReleases>>

\* InventoryService.addInventory(p, q), a public call.
AddInventory(p, q) ==
  /\ nAdds < MaxAdds
  /\ nAdds' = nAdds + 1
  /\ inventory' = addInventory(inventory, p, q)
  /\ UNCHANGED <<lockMap, orders, handlers, shipments, shipLog, sagaLog, busLog, readyCount,
                 terminalLog, released, nReleases>>

\* InventoryService.releaseStock(p, q), a public call.
ReleaseStock(p, q) ==
  /\ nReleases < MaxReleases
  /\ nReleases' = nReleases + 1
  /\ inventory' = releaseStock(inventory, p, q)
  /\ released' = IF inventory' # inventory
                   THEN [released EXCEPT ![p] = @ + q] ELSE released
  /\ UNCHANGED <<lockMap, orders, handlers, shipments, shipLog, sagaLog, busLog, readyCount,
                 terminalLog, nAdds>>

Next ==
  \/ \E items \in OrderInputs : CreateOrder(items)
  \/ \E o \in OrderIds : ResumeReserve(o)
  \/ \E o \in OrderIds : AfterReserve(o)
  \/ \E o \in OrderIds, k \in 1..MaxShipLines : Ship(o, k)
  \/ \E o \in OrderIds, k \in 1..MaxShipLines : Deliver(o, k)
  \/ \E a \in AddInputs : AddInventory(a[1], a[2])
  \/ \E a \in ReleaseInputs : ReleaseStock(a[1], a[2])

\* Ship and Deliver change nothing but the status of a shipment line, which no
\* other action reads: NextSaga is Next without the shipment timers.
NextSaga ==
  \/ \E items \in OrderInputs : CreateOrder(items)
  \/ \E o \in OrderIds : ResumeReserve(o)
  \/ \E o \in OrderIds : AfterReserve(o)
  \/ \E a \in AddInputs : AddInventory(a[1], a[2])
  \/ \E a \in ReleaseInputs : ReleaseStock(a[1], a[2])

SpecSaga == Init /\ [][NextSaga]_vars

Spec == Init /\ [][Next]_vars

\* Orders that reach shipping, with two items and with one.
ShipInputs ==
  { <<Item("PROD-1", 2), Item("PROD-2", 3)>>,
    <<Item("PROD-2", 3)>> }

\* The orders of ShipInputs from placement to delivery, inventory calls left
\* out.
NextShip ==
  \/ \E items \in ShipInputs : CreateOrder(items)
  \/ \E o \in OrderIds : ResumeReserve(o)
  \/ \E o \in OrderIds : AfterReserve(o)
  \/ \E o \in OrderIds, k \in 1..MaxShipLines : Ship(o, k)
  \/ \E o \in OrderIds, k \in 1..MaxShipLines : Deliver(o, k)

\* Every timer set by processShipment fires: each of its two awaits is a
\* setTimeout of at most 1.5 s, one pair per shipment item.
SpecShipFair ==
  /\ Init
  /\ [][NextShip]_vars
  /\ \A o \in OrderIds, k \in 1..MaxShipLines :
       WF_vars(Ship(o, k)) /\ WF_vars(Deliver(o, k))

\* Orders that contend for PROD-2.
ContendInputs ==
  { <<Item("PROD-1", 2), Item("PROD-2", 3)>>,
    <<Item("PROD-2", 7), Item("PROD-3", 3)>>,
    <<Item("PROD-2", 3)>> }

\* The orders of ContendInputs through reservation, inventory calls and
\* shipment timers left out.
NextReserve ==
  \/ \E items \in ContendInputs : CreateOrder(items)
  \/ \E o \in OrderIds : ResumeReserve(o)
  \/ \E o \in OrderIds : AfterReserve(o)

\* Every timer set by handleOrderPlaced (the pacing delay of a line) and by
\* tryReserveStock (the 10 ms lock poll) fires.
SpecReserveFair ==
  /\ Init
  /\ [][NextReserve]_vars
  /\ \A o \in OrderIds : WF_vars(ResumeReserve(o))

\* ===================================================================== claims
RECURSIVE SumTo(_, _)
SumTo(ns, n) == IF n = 0 THEN 0 ELSE ns[n] + SumTo(ns, n - 1)

SumSeq(ns) == SumTo(ns, Len(ns))

\* Total quantity of product p over the lines of `items`.
SumQty(items, p) ==
  SumSeq([k \in 1..Len(items) |->
            IF items[k].productId = p THEN items[k].quantity ELSE 0])

Placed == 1..Len(orders)

Done(o) == handlers[o].pc = "done"

\* Line i of order o has been attempted and its outcome handled.
Processed(o, i) ==
  /\ i \in 1..Len(handlers[o].results)
  /\ i < handlers[o].idx

\* Quantity of p that tryReserveStock has granted to order o.
GrantedTo(o, p) ==
  SumSeq([i \in 1..Len(handlers[o].results) |->
            IF handlers[o].results[i].success /\ orders[o].items[i].productId = p
              THEN orders[o].items[i].quantity ELSE 0])

Granted(p) == SumSeq([o \in Placed |-> GrantedTo(o, p)])

\* Line i of order o was refused although part of it was available.
PartialLine(o, i) ==
  /\ Processed(o, i)
  /\ ~handlers[o].results[i].success
  /\ 0 < handlers[o].results[i].availableQuantity
  /\ handlers[o].results[i].availableQuantity < orders[o].items[i].quantity

AllReserved(o) ==
  /\ Len(handlers[o].results) = Len(orders[o].items)
  /\ \A i \in 1..Len(handlers[o].results) : handlers[o].results[i].success

\* The (productId, quantity) lines of a shipment batch.
ShipmentLines(batch) ==
  [k \in 1..Len(batch) |-> Item(batch[k].productId, batch[k].quantity)]

\* C1. No oversell: for every product 0 <= reserved <= quantity in every
\* reachable state, and the quantity granted by tryReserveStock and not
\* released again never exceeds the product's total quantity.
C1_NoOversell ==
  \A p \in DOMAIN inventory :
    /\ 0 <= inventory[p].reserved
    /\ inventory[p].reserved <= inventory[p].quantity
    /\ Granted(p) - released[p] <= inventory[p].quantity

\* Two orders contended for one product: one attempt was granted, another refused.
C1_Witness ==
  \E o1 \in Placed, o2 \in Placed :
    \E i \in 1..Len(handlers[o1].results), j \in 1..Len(handlers[o2].results) :
      /\ o1 # o2
      /\ orders[o1].items[i].productId = orders[o2].items[j].productId
      /\ orders[o1].items[i].productId \in DOMAIN inventory
      /\ handlers[o1].results[i].success
      /\ ~handlers[o2].results[j].success
      /\ handlers[o2].results[j].availableQuantity > 0

\* C2. Completeness, for orders with at least one requested line: once the
\* inventory handler of an order has processed every line and published its
\* last event, the order has a terminal status (which it is given only when
\* the outcome records number the requested lines).
C2_Completeness ==
  \A o \in Placed :
    (Done(o) /\ Len(orders[o].items) > 0) =>
      /\ orders[o].status \in Terminal
      /\ Len(terminalLog[o]) > 0
      /\ terminalLog[o][1].complete

\* C3. Exactly-once terminal transition: a terminal status is assigned at most
\* once per order, only when fulfillable + unfulfillable records number the
\* requested lines; the status is terminal exactly when it was so assigned;
\* and no step changes a terminal status.
C3_TerminalState ==
  \A o \in OrderIds :
    /\ Len(terminalLog[o]) <= 1
    /\ \A k \in 1..Len(terminalLog[o]) : terminalLog[o][k].complete
    /\ o \in Placed =>
         IF Len(terminalLog[o]) = 0
           THEN orders[o].status = "processing"
           ELSE orders[o].status = terminalLog[o][1].status
                  /\ orders[o].status \in Terminal

C3_TerminalStable ==
  \A o \in Placed :
    orders[o].status \in Terminal => orders'[o].status = orders[o].status

C3_ExactlyOnceTerminal == []C3_TerminalState /\ [][C3_TerminalStable]_vars

\* A terminal order for which a later StockReserved delivery was handled.
C3_Witness ==
  \E o \in Placed :
    /\ orders[o].status \in Terminal
    /\ Len(sagaLog[o]) >= 2
    /\ sagaLog[o][Len(sagaLog[o])] = "StockReserved"
    /\ ~isOrderComplete(orders[o])

\* C4. Ordering: the order saga handles every OutOfStock event of an order
\* before that order's StockReserved event, and handles at most one
\* StockReserved event per order (only the last handled event can be one).
C4_Ordering ==
  \A o \in OrderIds :
    \A i \in 1..Len(sagaLog[o]) :
      i < Len(sagaLog[o]) => sagaLog[o][i] = "OutOfStock"

\* An order with a refused and a reserved line, both events handled.
C4_Witness ==
  \E o \in Placed :
    /\ Done(o)
    /\ \E i \in 1..Len(sagaLog[o]) : sagaLog[o][i] = "OutOfStock"
    /\ sagaLog[o][Len(sagaLog[o])] = "StockReserved"

\* C5. Scenario B generalised: a processed two-line order whose first line
\* asked for more than the available stock (0 < available < requested) and
\* whose second line was reserved is partial with 2 fulfillable and 1
\* unfulfillable lines, and its shipment batch has a line for every
\* fulfillable line.
C5_ScenarioB ==
  \A o \in Placed :
    (/\ Done(o)
     /\ Len(orders[o].items) = 2
     /\ PartialLine(o, 1)
     /\ handlers[o].results[2].success) =>
      /\ orders[o].status = "partial"
      /\ Len(orders[o].fulfillableItems) = 2
      /\ Len(orders[o].unfulfillableItems) = 1
      /\ ShipmentLines(shipments[o]) = orders[o].fulfillableItems

\* C6. Scenario C generalised: when two single-line orders for one product
\* whose quantities each fit the stock but together exceed it have both been
\* processed, at least one of them is partial or cancelled.
C6_ScenarioC ==
  \A o1 \in Placed, o2 \in Placed :
    (/\ o1 # o2
     /\ Done(o1) /\ Done(o2)
     /\ nAdds = 0 /\ nReleases = 0
     /\ Len(orders[o1].items) = 1 /\ Len(orders[o2].items) = 1
     /\ orders[o1].items[1].productId = orders[o2].items[1].productId
     /\ orders[o1].items[1].productId \in DOMAIN inventory
     /\ LET stock == inventory[orders[o1].items[1].productId].quantity
            q1 == orders[o1].items[1].quantity
            q2 == orders[o2].items[1].quantity
        IN q1 <= stock /\ q2 <= stock /\ q1 + q2 > stock) =>
      \/ orders[o1].status \in {"partial", "cancelled"}
      \/ orders[o2].status \in {"partial", "cancelled"}

\* C7. Fulfillable accounting never oversells: for every product the quantity
\* recorded in the fulfillableItems of all orders is at most its total stock.
C7_FulfillableWithinStock ==
  \A p \in DOMAIN inventory :
    SumSeq([o \in Placed |-> SumQty(orders[o].fulfillableItems, p)])
      <= inventory[p].quantity

\* C8. Only reserved items are handed to shipment: for every product the
\* quantity on shipment lines is at most what tryReserveStock reserved for it
\* (the reserved count, plus what releaseStock took off it since).
C8_ShipmentsReserved ==
  \A p \in DOMAIN inventory :
    SumSeq([o \in Placed |-> SumQty(shipments[o], p)])
      <= inventory[p].reserved + released[p]

\* C9. A line refused with 0 < available < requested still reserves the
\* available amount: the reserved count of a product (plus what releaseStock
\* took off it) is the quantity granted to reserved lines plus the available
\* amount of every processed line that was refused with part available.
C9_PartialReserved ==
  \A p \in DOMAIN inventory :
    inventory[p].reserved + released[p] =
      Granted(p) +
      SumSeq([o \in Placed |->
        SumSeq([i \in 1..Len(handlers[o].results) |->
          IF PartialLine(o, i) /\ orders[o].items[i].productId = p
            THEN handlers[o].results[i].availableQuantity ELSE 0])])

\* C10. Scenario A generalised: an order whose lines were all attempted and
\* all reserved is, once its handler has finished, fulfilled with
\* fulfillableItems equal to the requested lines, no unfulfillable line and
\* one shipment line per requested line; and every product's reserved count
\* (plus what releaseStock took off it) is exactly the quantity requested by
\* the reserved lines.
C10_ScenarioA ==
  /\ \A o \in Placed :
       (Done(o) /\ Len(orders[o].items) > 0 /\ AllReserved(o)) =>
         /\ orders[o].status = "fulfilled"
         /\ orders[o].fulfillableItems = orders[o].items
         /\ orders[o].unfulfillableItems = <<>>
         /\ ShipmentLines(shipments[o]) = orders[o].items
         /\ \A p \in ProductIds : GrantedTo(o, p) = SumQty(orders[o].items, p)
  /\ \A p \in DOMAIN inventory :
       inventory[p].reserved + released[p] = Granted(p)

\* A finished two-line order with both lines reserved.
C10_Witness ==
  \E o \in Placed :
    /\ Done(o)
    /\ Len(orders[o].items) = 2
    /\ AllReserved(o)
    /\ orders[o].items[1].productId # orders[o].items[2].productId
    /\ inventory[orders[o].items[1].productId].reserved > 0

\* C11. Events for an already-terminal order are ignored: a step in which the
\* saga handles a StockReserved or OutOfStock event of an order whose status
\* is fulfilled, partial or cancelled leaves the order's fulfillableItems,
\* unfulfillableItems and status as they were and publishes no
\* OrderReadyForShipping.
C11_TerminalIgnoresStep ==
  \A o \in Placed :
    (orders[o].status \in Terminal /\ sagaLog'[o] # sagaLog[o]) =>
      /\ orders'[o].fulfillableItems = orders[o].fulfillableItems
      /\ orders'[o].unfulfillableItems = orders[o].unfulfillableItems
      /\ orders'[o].status = orders[o].status
      /\ readyCount'[o] = readyCount[o]

C11_TerminalIgnoresEvents == [][C11_TerminalIgnoresStep]_vars

\* C12. createOrder returns the order with status processing, never pending,
\* whatever the item list; and when it sets processing the saga has handled no
\* StockReserved or OutOfStock event of that order and has assigned it no
\* terminal status, so processing overwrites none.
C12_NeverPending == \A o \in Placed : orders[o].status # "pending"

C12_CreateStep ==
  Len(orders') > Len(orders) =>
    /\ orders'[Len(orders')].status = "processing"
    /\ sagaLog'[Len(orders')] = <<>>
    /\ terminalLog'[Len(orders')] = <<>>
    /\ readyCount'[Len(orders')] = 0

C12_ProcessingOnCreate == []C12_NeverPending /\ [][C12_CreateStep]_vars

\* createOrder has returned for an order with no item and for an order with
\* items whose first reservation attempt is still to come.
C12_Witness ==
  \E o1 \in Placed, o2 \in Placed :
    /\ Len(orders[o1].items) = 0
    /\ orders[o1].status = "processing"
    /\ Len(orders[o2].items) > 0
    /\ handlers[o2].pc = "pace"
    /\ handlers[o2].results = <<>>
    /\ orders[o2].status = "processing"

\* Handler o holds the lock of product p: it set lockMap[p] in its attempt on
\* p and that attempt has not reset it.
InCriticalSection(o, p) ==
  /\ lockMap[p]
  /\ handlers[o].pc = "result"
  /\ orders[o].items[handlers[o].idx].productId = p

\* The attempts on product p that tryReserveStock granted.
GrantedAttempts(p) ==
  {a \in Placed \X (1..MaxLenOf(OrderInputs)) :
     /\ a[2] \in 1..Len(handlers[a[1]].results)
     /\ handlers[a[1]].results[a[2]].success
     /\ orders[a[1]].items[a[2]].productId = p}

\* C13. Mutual exclusion per product: in every reachable state at most one
\* reservation attempt is inside the critical section of a product, and no two
\* granted attempts for a product read the same available value (for a
\* product whose quantity was not raised and whose reservations were not
\* released, either of which makes an available value recur).
C13_MutualExclusion ==
  \A p \in ProductIds :
    /\ \A o1 \in Placed, o2 \in Placed :
         (InCriticalSection(o1, p) /\ InCriticalSection(o2, p)) => o1 = o2
    /\ (/\ p \in DOMAIN InitialInventory
        /\ inventory[p].quantity = InitialInventory[p].quantity
        /\ released[p] = 0) =>
         \A o1 \in Placed, o2 \in Placed :
           \A i \in 1..Len(handlers[o1].results), j \in 1..Len(handlers[o2].results) :
             (/\ <<o1, i>> # <<o2, j>>
              /\ orders[o1].items[i].productId = p
              /\ orders[o2].items[j].productId = p
              /\ handlers[o1].results[i].success
              /\ handlers[o2].results[j].success) =>
                handlers[o1].results[i].availableQuantity
                  # handlers[o2].results[j].availableQuantity

\* Two orders were each granted a reservation of the same product.
C13_Witness ==
  \E p \in DOMAIN inventory :
    \E a \in GrantedAttempts(p), b \in GrantedAttempts(p) : a[1] # b[1]

\* C16. A terminal status is assigned, and OrderReadyForShipping published,
\* only after the inventory service has attempted every requested line of the
\* order: an order that is terminal or has a shipment announced has one
\* tryReserveStock result per requested line.
C16_TerminalAfterAllLines ==
  \A o \in Placed :
    (orders[o].status \in Terminal \/ readyCount[o] > 0) =>
      Len(handlers[o].results) = Len(orders[o].items)

\* C17. tryReserveStock(productId, q): in a step where an attempt returns, the
\* attempt succeeds exactly when the product is known and its available
\* quantity (quantity - reserved before the call) is at least q; the returned
\* availableQuantity is that value (0 for an unknown product); on success
\* reserved of that product grows by q and nothing else changes; on failure
\* the inventory is unchanged.
C17_ReserveStep ==
  \A o \in 1..Len(handlers) :
    Len(handlers'[o].results) > Len(handlers[o].results) =>
      LET item == orders[o].items[handlers[o].idx]
          p == item.productId
          q == item.quantity
          r == handlers'[o].results[Len(handlers'[o].results)]
          known == p \in DOMAIN inventory
          avail == IF known THEN inventory[p].quantity - inventory[p].reserved ELSE 0
      IN r.threw \/
         /\ r.success <=> (known /\ avail >= q)
         /\ r.availableQuantity = avail
         /\ r.success => inventory' = [inventory EXCEPT ![p].reserved = @ + q]
         /\ ~r.success => inventory' = inventory

C17_ReserveContract == [][C17_ReserveStep]_vars

\* Attempts have returned a success, a failure with stock left, and a failure
\* for a product the inventory never knew.
C17_Witness ==
  /\ nAdds = 0
  /\ \E o \in Placed : \E i \in 1..Len(handlers[o].results) :
       handlers[o].results[i].success
  /\ \E o \in Placed : \E i \in 1..Len(handlers[o].results) :
       ~handlers[o].results[i].success /\ handlers[o].results[i].availableQuantity > 0
  /\ \E o \in Placed : \E i \in 1..Len(handlers[o].results) :
       /\ ~handlers[o].results[i].success
       /\ orders[o].items[i].productId \notin DOMAIN inventory

\* C18. Status and lists agree: a fulfilled order has no unfulfillable line and
\* its fulfillable lines are the requested lines; a cancelled order has no
\* fulfillable line, no OrderReadyForShipping and no shipment; a partial order
\* has at least one fulfillable and at least one unfulfillable line.
C18_StatusMatchesLists ==
  \A o \in Placed :
    /\ orders[o].status = "fulfilled" =>
         /\ orders[o].unfulfillableItems = <<>>
         /\ orders[o].fulfillableItems = orders[o].items
    /\ orders[o].status = "cancelled" =>
         /\ orders[o].fulfillableItems = <<>>
         /\ readyCount[o] = 0
         /\ shipments[o] = <<>>
    /\ orders[o].status = "partial" =>
         /\ orders[o].fulfillableItems # <<>>
         /\ orders[o].unfulfillableItems # <<>>

\* One order is cancelled and another is partial.
C18_Witness ==
  \E o1, o2 \in Placed :
    orders[o1].status = "cancelled" /\ orders[o2].status = "partial"

\* C20. The lock of a product is released whatever tryReserveStock returns:
\* between two steps, when every running handler is suspended at an await, no
\* product is locked.
C20_LockReleased == \A p \in DOMAIN lockMap : ~lockMap[p]

\* A handler is suspended after one granted and one refused attempt.
C20_Witness ==
  \E o \in Placed :
    /\ handlers[o].pc # "done"
    /\ \E i, j \in 1..Len(handlers[o].results) :
         handlers[o].results[i].success /\ ~handlers[o].results[j].success

\* C19. A reservation error does not stall the order: once handleOrderPlaced
\* has finished an order in which the attempt of some line threw, every such
\* line has an unfulfillable record and the order has a terminal status.
C19_ErrorLineAccounted ==
  \A o \in Placed :
    (Done(o) /\ \E i \in 1..Len(handlers[o].results) : handlers[o].results[i].threw) =>
      /\ \A i \in 1..Len(handlers[o].results) :
           handlers[o].results[i].threw =>
             \E k \in 1..Len(orders[o].unfulfillableItems) :
               orders[o].unfulfillableItems[k].productId = orders[o].items[i].productId
      /\ orders[o].status \in Terminal

\* The shipment items of order o, by position.
Lines(o) == 1..Len(shipments[o])

\* One step of shipment item k of order o: created pending, or unchanged, or
\* pending -> shipped, or shipped -> delivered; the items of an order are
\* never replaced or dropped.
C14_Step ==
  \A o \in OrderIds :
    /\ Len(shipments'[o]) >= Len(shipments[o])
    /\ \A k \in 1..Len(shipments'[o]) :
         IF k \in Lines(o)
           THEN <<shipments[o][k].status, shipments'[o][k].status>> \in
                  {<<"pending", "pending">>, <<"pending", "shipped">>,
                   <<"shipped", "shipped">>, <<"shipped", "delivered">>,
                   <<"delivered", "delivered">>}
           ELSE shipments'[o][k].status = "pending"

\* The events published for a shipment item are those of its status: none
\* while pending, ItemShipped once shipped, ItemShipped then ItemDelivered
\* once delivered.
C14_Events ==
  \A o \in OrderIds :
    /\ Len(shipLog[o]) = Len(shipments[o])
    /\ \A k \in Lines(o) :
         shipLog[o][k] = CASE shipments[o][k].status = "pending" -> <<>>
                           [] shipments[o][k].status = "shipped" -> <<"ItemShipped">>
                           [] shipments[o][k].status = "delivered" ->
                                <<"ItemShipped", "ItemDelivered">>

\* Shipment item k of order o exists and is delivered.
Delivered(o, k) == k \in Lines(o) /\ shipments[o][k].status = "delivered"

\* C14. Shipment progression: every shipment item starts pending and only
\* moves pending -> shipped -> delivered; ItemShipped is published once per
\* item, before the item's single ItemDelivered; and when the shipment timers
\* fire, every item is eventually delivered, whatever happens to the others.
C14_ShipmentProgression ==
  /\ [][C14_Step]_vars
  /\ []C14_Events
  /\ \A o \in OrderIds, k \in 1..MaxShipLines : (k \in Lines(o)) ~> Delivered(o, k)

\* An order has one item delivered while another of its items is pending.
C14_Witness ==
  \E o \in OrderIds : \E k, j \in Lines(o) :
    Delivered(o, k) /\ shipments[o][j].status = "pending"

\* The handlers subscribed to each event type, in subscription order:
\* ItemShipped and ItemDelivered have none.
Subscribers(type) ==
  CASE type = "OrderPlaced" -> <<"InventoryService.handleOrderPlaced">>
    [] type = "StockReserved" -> <<"OrderService.handleStockReserved">>
    [] type = "OutOfStock" -> <<"OrderService.handleOutOfStock">>
    [] type = "OrderReadyForShipping" ->
         <<"ShippingService.handleOrderReadyForShipping">>
    [] OTHER -> <<>>

\* The types of the publications in log that are of one of the given types.
TypesIn(log, types) ==
  LET sel == SelectSeq(log, LAMBDA e : e.type \in types)
  IN [i \in 1..Len(sel) |-> sel[i].type]

\* Every publication invoked the subscribers of its type and no other
\* handler, once each and in subscription order, and the invoked handlers
\* have run by the end of the publishing step: the inventory handler exists
\* for every OrderPlaced, the saga has handled every StockReserved and
\* OutOfStock, and the shipment items exist for every OrderReadyForShipping.
C15_Dispatched ==
  \A o \in OrderIds :
    /\ \A i \in 1..Len(busLog[o]) :
         busLog[o][i].invoked = Subscribers(busLog[o][i].type)
    /\ TypesIn(busLog[o], {"OrderPlaced"}) =
         IF o \in Placed THEN <<"OrderPlaced">> ELSE <<>>
    /\ o \in Placed => o \in 1..Len(handlers)
    /\ TypesIn(busLog[o], {"StockReserved", "OutOfStock"}) = sagaLog[o]
    /\ Len(TypesIn(busLog[o], {"OrderReadyForShipping"})) = readyCount[o]
    /\ readyCount[o] > 0 => shipments[o] # <<>>

\* publish(OrderPlaced) returns with handleOrderPlaced started and suspended
\* at its first await: createOrder ends before any line is attempted.
C15_CreateStep ==
  (Len(orders') > Len(orders) /\ orders'[Len(orders')].items # <<>>) =>
    /\ handlers'[Len(orders')].pc = "pace"
    /\ handlers'[Len(orders')].results = <<>>
    /\ inventory' = inventory

C24_Once ==
  \A o \in OrderIds :
    /\ readyCount[o] <= 1
    /\ readyCount[o] = 1 <=> shipments[o] # <<>>

\* A step leaves the items of an existing shipment batch as they are.
C24_Step ==
  \A o \in OrderIds :
    shipments[o] # <<>> => ShipmentLines(shipments'[o]) = ShipmentLines(shipments[o])

\* C24. OrderReadyForShipping is published at most once per order, always
\* with a non-empty item list: the shipment batch of an order is created once
\* and no later event overwrites it.
C24_ReadyOnce == []C24_Once /\ [][C24_Step]_vars

\* The saga handled a further event of an order after the publication of its
\* OrderReadyForShipping.
C24_Witness ==
  \E o \in Placed :
    /\ readyCount[o] = 1
    /\ \E i \in 1..Len(busLog[o]) :
         /\ busLog[o][i].type = "OrderReadyForShipping"
         /\ i < Len(busLog[o])

\* Total quantity of the lines of `items`.
TotalQty(items) == SumSeq([k \in 1..Len(items) |-> items[k].quantity])

\* A step in which handleOrderPlaced resumes with a refused attempt for line
\* idx of order o (requested q, available a) and OutOfStock is handled: one
\* unfulfillable line of quantity q - a > 0 is appended and, exactly when
\* a > 0, one fulfillable line of quantity a; the fulfillable lines appended
\* after it are those of the StockReserved published when the loop ends.
C23_Step ==
  \A o \in Placed :
    (/\ handlers[o].pc = "result"
     /\ handlers'[o].idx = handlers[o].idx + 1
     /\ ~handlers[o].results[handlers[o].idx].success) =>
      LET item == orders[o].items[handlers[o].idx]
          a == handlers[o].results[handlers[o].idx].availableQuantity
          later == IF handlers'[o].pc = "done" THEN handlers[o].reservations ELSE <<>>
      IN /\ item.quantity - a > 0
         /\ orders'[o].unfulfillableItems =
              Append(orders[o].unfulfillableItems,
                     Item(item.productId, item.quantity - a))
         /\ orders'[o].fulfillableItems =
              orders[o].fulfillableItems
                \o (IF a > 0 THEN <<Item(item.productId, a)>> ELSE <<>>)
                \o later

\* Once every line of an order of well-formed lines has been processed, the
\* fulfillable and unfulfillable quantities sum to the requested quantities.
C23_Total ==
  \A o \in Placed :
    (Done(o) /\ \A i \in 1..Len(orders[o].items) : ~IsNull(orders[o].items[i])) =>
      TotalQty(orders[o].fulfillableItems) + TotalQty(orders[o].unfulfillableItems)
        = TotalQty(orders[o].items)

\* C23. OutOfStock accounting conserves quantity: handling OutOfStock appends
\* one unfulfillable line of quantity requested - available > 0 and, iff
\* available > 0, one fulfillable line of quantity available; once all lines
\* of an order are processed the recorded quantities sum to the requested
\* quantities.
C23_Conservation == [][C23_Step]_vars /\ []C23_Total

\* One finished order had a line refused with stock left and a line granted,
\* another had a line refused with nothing available.
C23_Witness ==
  \E o1, o2 \in Placed :
    /\ Done(o1) /\ Done(o2)
    /\ \E i \in 1..Len(orders[o1].items) : PartialLine(o1, i)
    /\ \E i \in 1..Len(orders[o1].items) : handlers[o1].results[i].success
    /\ \E i \in 1..Len(orders[o2].items) :
         ~handlers[o2].results[i].success /\ ~handlers[o2].results[i].threw
           /\ handlers[o2].results[i].availableQuantity = 0

\* The refused attempts among the results of order o (a thrown attempt is
\* not one: nothing is published for it).
Refused(o) ==
  {i \in 1..Len(handlers[o].results) :
     ~handlers[o].results[i].success /\ ~handlers[o].results[i].threw}

\* One attempt at a time: the attempts made for an order are those of its
\* first lines, and at most the last of them awaits its outcome.
C22_OneAtATime ==
  \A o \in Placed :
    /\ Len(handlers[o].results) <= Len(orders[o].items)
    /\ handlers[o].idx \in {Len(handlers[o].results), Len(handlers[o].results) + 1}
    /\ handlers[o].idx = Len(handlers[o].results) <=> handlers[o].pc = "result"

\* A step in which order o gets the result of an attempt: the attempt is the
\* one of the line that follows the lines attempted so far, it reserves that
\* line's product and quantity if it succeeds, and the OutOfStock of every
\* earlier refused line has been published.
C22_AttemptStep ==
  \A o \in Placed :
    Len(handlers'[o].results) # Len(handlers[o].results) =>
      LET n == Len(handlers[o].results) + 1
          r == handlers'[o].results[n]
      IN /\ Len(handlers'[o].results) = n
         /\ n <= Len(orders[o].items)
         /\ handlers[o].pc # "result"
         /\ \A i \in 1..(n - 1) : handlers'[o].results[i] = handlers[o].results[i]
         /\ Len(TypesIn(busLog[o], {"OutOfStock"})) = Cardinality(Refused(o))
         /\ r.success =>
              inventory' = [inventory EXCEPT
                              ![orders[o].items[n].productId].reserved =
                                 @ + orders[o].items[n].quantity]

\* C22. Within one order the reservation attempts are made in request order
\* and one at a time: line i+1 is attempted only after the attempt of line i
\* has returned and its OutOfStock, if any, has been published.  (That the
\* attempts of different orders interleave between lines is what the
\* witness shows.)
C22_RequestOrder == []C22_OneAtATime /\ [][C22_AttemptStep]_vars

\* Between the first and the second line of one order, both lines of an
\* order placed after it were attempted.
C22_Witness ==
  \E o1, o2 \in Placed :
    /\ o1 < o2
    /\ Len(orders[o1].items) = 2 /\ Len(handlers[o1].results) = 1
    /\ handlers[o1].pc = "pace"
    /\ Len(orders[o2].items) = 2 /\ Len(handlers[o2].results) = 2

\* No handler is ever left polling a lock: whatever product other attempts
\* are for, an attempt takes the lock of its product when its timer fires.
C21_NeverWaits == \A o \in Placed : handlers[o].pc # "lockwait"

\* The attempt of line n + 1 of order o is due: its pacing timer or its lock
\* poll is pending.
Attempting(o, n) ==
  /\ o \in Placed
  /\ handlers[o].pc \in {"pace", "lockwait"}
  /\ Len(handlers[o].results) = n

\* The attempt of line n + 1 of order o has returned.
AttemptReturned(o, n) == o \in Placed /\ Len(handlers[o].results) > n

\* C21. No starvation and no cross-product blocking: when timers fire, every
\* reservation attempt of every order eventually takes the lock and returns,
\* however many orders contend for the product, and no attempt waits for a
\* lock (so none waits because of an attempt on another product).
C21_NoStarvation ==
  /\ []C21_NeverWaits
  /\ \A o \in OrderIds, n \in 0..(MaxLenOf(ContendInputs) - 1) :
       Attempting(o, n) ~> AttemptReturned(o, n)

\* Two orders have both had their attempt on the same product returned, one
\* granted and one refused.
C21_Witness ==
  \E o1, o2 \in Placed : \E i \in 1..Len(handlers[o1].results) :
    \E j \in 1..Len(handlers[o2].results) :
      /\ o1 # o2
      /\ orders[o1].items[i].productId = orders[o2].items[j].productId
      /\ handlers[o1].results[i].success
      /\ ~handlers[o2].results[j].success

====
